---- MODULE Spec2Model ----
(***************************************************************************)
(* Model of codex-rs/verify_yaml_config.py: the validator                  *)
(* verify_yaml_config, the scan loop of main, and the scope resolver of    *)
(* the loader that script describes (global and project directories).      *)
(*                                                                         *)
(* A parsed YAML mapping is a function whose DOMAIN is the set of keys     *)
(* present, so Python's `k in d` is `k \in DOMAIN d`.                      *)
(***************************************************************************)
EXTENDS Integers, Sequences, FiniteSets, TLC

-----------------------------------------------------------------------------
(* Bounds of the model *)

MaxFiles == 3
MaxTools == 1
MaxParams == 1
MaxScopeFiles == 2

-----------------------------------------------------------------------------
(* Generic helpers *)

\* sequences over S of length at most n
SeqsUpTo(S, n) == UNION {[1..m -> S] : m \in 0..n}

\* an optional value: <<>> is "key absent", <<v>> is "key present with value v"
Opt(S) == {<<>>} \cup {<<v>> : v \in S}

\* the mapping holding exactly the keys of o that are present
MkDict(o) == [k \in {x \in DOMAIN o : o[x] /= <<>>} |-> o[k][1]]

\* Python `k in d` for a dict d
Has(d, k) == k \in DOMAIN d

\* mutant of Truthy: a whitespace-only string taken as empty too
TruthyUnlessBlank(v) == v \notin {"", " "}

\* Python truth value of a string: only the empty string is falsy
Truthy(v) == v /= ""

-----------------------------------------------------------------------------
(* Lists of the validator *)

required == <<"name", "description", "prompt">>

valid_modes == {"plan", "build", "review"}

valid_levels == {"light", "medium", "hard"}

valid_permissions == {"allow", "deny", "restricted"}

required_param_fields == <<"name", "description">>

\* the top-level keys the file schema knows
KnownKeys == {"name", "description", "prompt", "mode_override", "intelligence",
              "tools", "parameters", "tags", "file_patterns", "metadata"}

-----------------------------------------------------------------------------
(* Console output: one record per printed line.  err marks the lines       *)
(* printed with the cross mark, i.e. the violations reported.              *)

Line(e, m, s, v, a, c) ==
    [err |-> e, msg |-> m, subject |-> s, value |-> v, allowed |-> a, n |-> c]

ErrLine(m, s, v, a) == Line(TRUE, m, s, v, a, 0)

OkLine(m, s, v, c) == Line(FALSE, m, s, v, {}, c)

\* the violations among the printed lines, in print order
Errors(out) == SelectSeq(out, LAMBDA l : l.err)

-----------------------------------------------------------------------------
(* verify_yaml_config, section by section.  Every section takes the output *)
(* printed so far and gives [ok, out]: ok = FALSE is `return False`.       *)

RECURSIVE CheckRequired(_, _, _)
CheckRequired(config, i, out) ==
    IF i > Len(required) THEN [ok |-> TRUE, out |-> out]
    ELSE LET field == required[i] IN
         IF ~Has(config, field) \/ ~Truthy(config[field])
         THEN [ok |-> FALSE,
               out |-> Append(out, ErrLine("Missing required field", field, "", {}))]
         ELSE CheckRequired(config, i + 1,
                            Append(out, OkLine("field", field, config[field], 0)))

\* mutant of CheckEnum: the violation is printed but `return False` is missing
CheckEnumWarnOnly(config, key, allowed, out) ==
    IF ~Has(config, key) THEN [ok |-> TRUE, out |-> out]
    ELSE IF config[key] \notin allowed
         THEN [ok |-> TRUE,
               out |-> Append(out, ErrLine("Invalid", key, config[key], allowed))]
         ELSE [ok |-> TRUE, out |-> Append(out, OkLine("field", key, config[key], 0))]

CheckEnum(config, key, allowed, out) ==
    IF ~Has(config, key) THEN [ok |-> TRUE, out |-> out]
    ELSE IF config[key] \notin allowed
         THEN [ok |-> FALSE,
               out |-> Append(out, ErrLine("Invalid", key, config[key], allowed))]
         ELSE [ok |-> TRUE, out |-> Append(out, OkLine("field", key, config[key], 0))]

\* mutant of CheckTool: a missing name does not stop the checks of the entry
CheckToolReportsBoth(tool, out) ==
    LET o1 == IF ~Has(tool, "name")
              THEN Append(out, ErrLine("Tool missing 'name' field", "", "", {}))
              ELSE out
        bad == Has(tool, "permission") /\ tool["permission"] \notin valid_permissions
    IN [ok |-> Has(tool, "name") /\ ~bad,
        out |-> IF bad
                THEN Append(o1, ErrLine("Invalid permission for", "", tool["permission"], {}))
                ELSE o1]

\* mutant of CheckTool: a restricted tool must carry restrictions
CheckToolRequiresRestrictions(tool, out) ==
    IF ~Has(tool, "name")
    THEN [ok |-> FALSE,
          out |-> Append(out, ErrLine("Tool missing 'name' field", "", "", {}))]
    ELSE IF ~Has(tool, "permission") THEN [ok |-> TRUE, out |-> out]
    ELSE IF \/ tool["permission"] \notin valid_permissions
            \/ tool["permission"] = "restricted" /\ ~Has(tool, "restrictions")
         THEN [ok |-> FALSE,
               out |-> Append(out, ErrLine("Invalid permission for", tool["name"],
                                           tool["permission"], {}))]
         ELSE [ok |-> TRUE,
               out |-> Append(out, OkLine("tool", tool["name"], tool["permission"], 0))]

\* one iteration of `for tool in config['tools']`
CheckTool(tool, out) ==
    IF ~Has(tool, "name")
    THEN [ok |-> FALSE,
          out |-> Append(out, ErrLine("Tool missing 'name' field", "", "", {}))]
    ELSE IF ~Has(tool, "permission") THEN [ok |-> TRUE, out |-> out]
    ELSE IF tool["permission"] \notin valid_permissions
         THEN [ok |-> FALSE,
               out |-> Append(out, ErrLine("Invalid permission for", tool["name"],
                                           tool["permission"], {}))]
         ELSE LET restrictions ==
                    IF tool["permission"] = "restricted" /\ Has(tool, "restrictions")
                    THEN Len(tool["restrictions"]) ELSE 0
              IN [ok |-> TRUE,
                  out |-> Append(out, OkLine("tool", tool["name"],
                                             tool["permission"], restrictions))]

RECURSIVE CheckToolsFrom(_, _, _)
CheckToolsFrom(tools, i, out) ==
    IF i > Len(tools) THEN [ok |-> TRUE, out |-> out]
    ELSE LET r == CheckTool(tools[i], out) IN
         IF ~r.ok THEN r ELSE CheckToolsFrom(tools, i + 1, r.out)

\* mutant of CheckTools: `if not config.get('tools')` in place of a key test,
\* an empty list reported as a violation
CheckToolsNonEmpty(config, out) ==
    IF ~Has(config, "tools") THEN [ok |-> TRUE, out |-> out]
    ELSE IF config["tools"] = <<>>
         THEN [ok |-> FALSE, out |-> Append(out, ErrLine("No tools", "tools", "", {}))]
         ELSE CheckToolsFrom(config["tools"], 1,
                             Append(out, OkLine("tools configured", "tools", "",
                                                Len(config["tools"]))))

CheckTools(config, out) ==
    IF ~Has(config, "tools") THEN [ok |-> TRUE, out |-> out]
    ELSE CheckToolsFrom(config["tools"], 1,
                        Append(out, OkLine("tools configured", "tools", "",
                                           Len(config["tools"]))))

\* mutant of CheckParam: only the name of a parameter is required
CheckParamNameOnly(param, j, out) ==
    IF ~Has(param, "name")
    THEN [ok |-> FALSE,
          out |-> Append(out, ErrLine("Parameter missing field", "name", "", {}))]
    ELSE [ok |-> TRUE,
          out |-> Append(out, OkLine("param", param["name"],
                                     IF Has(param, "description")
                                     THEN param["description"] ELSE "", 0))]

\* one iteration of `for param in config['parameters']`
RECURSIVE CheckParam(_, _, _)
CheckParam(param, j, out) ==
    IF j > Len(required_param_fields)
    THEN [ok |-> TRUE,
          out |-> Append(out, OkLine("param", param["name"], param["description"], 0))]
    ELSE LET field == required_param_fields[j] IN
         IF ~Has(param, field)
         THEN [ok |-> FALSE,
               out |-> Append(out, ErrLine("Parameter missing field", field, "", {}))]
         ELSE CheckParam(param, j + 1, out)

RECURSIVE CheckParamsFrom(_, _, _)
CheckParamsFrom(params, i, out) ==
    IF i > Len(params) THEN [ok |-> TRUE, out |-> out]
    ELSE LET r == CheckParam(params[i], 1, out) IN
         IF ~r.ok THEN r ELSE CheckParamsFrom(params, i + 1, r.out)

CheckParameters(config, out) ==
    IF ~Has(config, "parameters") THEN [ok |-> TRUE, out |-> out]
    ELSE CheckParamsFrom(config["parameters"], 1,
                         Append(out, OkLine("parameters defined", "parameters", "",
                                            Len(config["parameters"]))))

\* mutant of CheckOther: a key outside the schema is printed as a violation
CheckOtherFlagsUnknown(config, out) ==
    LET o == IF Has(config, "tags")
             THEN Append(out, OkLine("items", "tags", "", Len(config["tags"])))
             ELSE out
    IN IF DOMAIN config \subseteq KnownKeys THEN o
       ELSE Append(o, ErrLine("Unknown field", "", "", {}))

\* `for field in ['tags', 'file_patterns', 'metadata']`: prints only.  The
\* documents of the model carry at most the tags key.
CheckOther(config, out) ==
    IF Has(config, "tags")
    THEN Append(out, OkLine("items", "tags", "", Len(config["tags"])))
    ELSE out

\* the result of one call: exc = "none" and ret the value returned, or the
\* exception that left the function
Returned(b, out) == [ret |-> b, exc |-> "none", out |-> out]

Raised(e) == [ret |-> FALSE, exc |-> e, out |-> <<>>]

\* the body of verify_yaml_config once the file is loaded as a mapping
VerifyMapping(config) ==
    LET r1 == CheckRequired(config, 1, <<>>) IN
    IF ~r1.ok THEN Returned(FALSE, r1.out) ELSE
    LET r2 == CheckEnum(config, "mode_override", valid_modes, r1.out) IN
    IF ~r2.ok THEN Returned(FALSE, r2.out) ELSE
    LET r3 == CheckEnum(config, "intelligence", valid_levels, r2.out) IN
    IF ~r3.ok THEN Returned(FALSE, r3.out) ELSE
    LET r4 == CheckTools(config, r3.out) IN
    IF ~r4.ok THEN Returned(FALSE, r4.out) ELSE
    LET r5 == CheckParameters(config, r4.out) IN
    IF ~r5.ok THEN Returned(FALSE, r5.out) ELSE
    Returned(TRUE, Append(CheckOther(config, r5.out),
                          OkLine("Configuration is valid!", "", "", 0)))

\* a file is [kind, tree]: kind "unparseable" makes yaml.safe_load raise,
\* kind "empty" makes it return None, kind "mapping" makes it return tree
verify_yaml_config(file) ==
    IF file.kind = "unparseable" THEN Raised("YAMLError")
    ELSE IF file.kind = "empty" THEN Raised("TypeError")
    ELSE VerifyMapping(file.tree)

-----------------------------------------------------------------------------
(* The documents the model feeds the validator *)

\* values of a required field: empty, blank (whitespace only), ordinary
StrVals == {"", " ", "x"}

ToolEntries ==
    {MkDict(o) : o \in [name : Opt({"grep"}),
                        permission : Opt({"allow", "restricted", "maybe"}),
                        restrictions : Opt({<<"*.rs">>})]}

ParamEntries ==
    {MkDict(o) : o \in [name : Opt({"path"}), description : Opt({"where"})]}

\* a tool entry and a parameter entry that break their rules
BadTool == [permission |-> "maybe"]

BadParam == [name |-> "path"]

\* every combination of the top-level scalar keys, with tools and parameters
\* absent or holding one broken entry; color is a key the schema does not know
TopLevelDocs ==
    {MkDict(o) : o \in [name : Opt(StrVals), description : Opt(StrVals),
                        prompt : Opt(StrVals),
                        mode_override : Opt({"plan", "fast"}),
                        intelligence : Opt({"hard", "extreme"}),
                        tools : Opt({<<BadTool>>}),
                        parameters : Opt({<<BadParam>>}),
                        tags : Opt({<<"rust">>}),
                        color : Opt({"blue"})]}

\* every combination of tool and parameter entries under valid required fields
NestedDocs ==
    {MkDict(o) : o \in [name : {<<"x">>}, description : {<<"x">>}, prompt : {<<"x">>},
                        mode_override : Opt({"plan", "fast"}),
                        tools : Opt(SeqsUpTo(ToolEntries, MaxTools)),
                        parameters : Opt(SeqsUpTo(ParamEntries, MaxParams)),
                        color : Opt({"blue"})]}

Docs == TopLevelDocs \cup NestedDocs

Mapping(d) == [kind |-> "mapping", tree |-> d]

Unparseable == [kind |-> "unparseable", tree |-> <<>>]

EmptyFile == [kind |-> "empty", tree |-> <<>>]

\* the files of a directory holding several files
FewFiles ==
    {Unparseable, EmptyFile}
    \cup {Mapping(MkDict(o)) : o \in [name : Opt({"x"}), description : {<<"x">>},
                                      prompt : {<<"x">>},
                                      mode_override : Opt({"fast"})]}

-----------------------------------------------------------------------------
(* main: the scan of example-agents/ *)

VARIABLES yaml_files, pc, idx, all_valid, outcomes, summary,
          global_files, project_files, scope, pos, merged, failures

\* the state of the resolver (below), which main never touches
resolverVars == <<global_files, project_files, scope, pos, merged, failures>>

mainVars == <<yaml_files, pc, idx, all_valid, outcomes, summary>>

vars == <<yaml_files, pc, idx, all_valid, outcomes, summary,
          global_files, project_files, scope, pos, merged, failures>>

ResolverIdle ==
    /\ global_files = <<>>
    /\ project_files = <<>>
    /\ scope = "idle"
    /\ pos = 1
    /\ merged = {}
    /\ failures = <<>>

\* yaml_files is the list the two globs give, each file standing for its
\* content; outcomes is what the calls of verify_yaml_config gave so far.
\* all_valid does not exist before StartLoop assigns it.  A directory holds
\* up to MaxFiles of the few files, or one file with any of the documents.
Init ==
    /\ yaml_files \in SeqsUpTo(FewFiles, MaxFiles) \cup {<<Mapping(d)>> : d \in Docs}
    /\ pc = "start"
    /\ idx = 1
    /\ all_valid = TRUE
    /\ outcomes = <<>>
    /\ summary = ""
    /\ ResolverIdle

\* `if not yaml_files: ... return`
NoFiles ==
    /\ pc = "start"
    /\ yaml_files = <<>>
    /\ summary' = "No YAML files found in example-agents/"
    /\ pc' = "done"
    /\ UNCHANGED <<yaml_files, idx, all_valid, outcomes>>
    /\ UNCHANGED resolverVars

\* `all_valid = True` and entry into the loop
StartLoop ==
    /\ pc = "start"
    /\ yaml_files /= <<>>
    /\ all_valid' = TRUE
    /\ idx' = 1
    /\ pc' = "loop"
    /\ UNCHANGED <<yaml_files, outcomes, summary>>
    /\ UNCHANGED resolverVars

\* mutant of VerifyReturns: `all_valid = verify_yaml_config(yaml_file)`, the
\* last file decides
VerifyReturnsLastWins ==
    /\ pc = "loop"
    /\ idx <= Len(yaml_files)
    /\ LET r == verify_yaml_config(yaml_files[idx]) IN
       /\ r.exc = "none"
       /\ outcomes' = Append(outcomes, r)
       /\ all_valid' = r.ret
    /\ idx' = idx + 1
    /\ UNCHANGED <<yaml_files, pc, summary>>
    /\ UNCHANGED resolverVars

\* one iteration in which verify_yaml_config returns
VerifyReturns ==
    /\ pc = "loop"
    /\ idx <= Len(yaml_files)
    /\ LET r == verify_yaml_config(yaml_files[idx]) IN
       /\ r.exc = "none"
       /\ outcomes' = Append(outcomes, r)
       /\ all_valid' = IF ~r.ret THEN FALSE ELSE all_valid
    /\ idx' = idx + 1
    /\ UNCHANGED <<yaml_files, pc, summary>>
    /\ UNCHANGED resolverVars

\* one iteration in which verify_yaml_config raises: nothing in main catches
\* the exception, the program ends with a traceback
VerifyRaises ==
    /\ pc = "loop"
    /\ idx <= Len(yaml_files)
    /\ LET r == verify_yaml_config(yaml_files[idx]) IN
       /\ r.exc /= "none"
       /\ outcomes' = Append(outcomes, r)
    /\ pc' = "crashed"
    /\ UNCHANGED <<yaml_files, idx, all_valid, summary>>
    /\ UNCHANGED resolverVars

\* the summary after the loop
PrintSummary ==
    /\ pc = "loop"
    /\ idx > Len(yaml_files)
    /\ summary' = IF all_valid THEN "All YAML configurations are valid!"
                  ELSE "Some configurations have errors"
    /\ pc' = "done"
    /\ UNCHANGED <<yaml_files, idx, all_valid, outcomes>>
    /\ UNCHANGED resolverVars

Next == NoFiles \/ StartLoop \/ VerifyReturns \/ VerifyRaises \/ PrintSummary

Spec == Init /\ [][Next]_vars

TypeOK ==
    /\ pc \in {"start", "loop", "done", "crashed"}
    /\ idx \in 1..(Len(yaml_files) + 1)
    /\ all_valid \in BOOLEAN
    /\ Len(outcomes) <= Len(yaml_files)

-----------------------------------------------------------------------------
(* The scope resolver of the loader: the files of the global directory,    *)
(* then those of the project directory, are parsed, validated and merged   *)
(* by agent name.                                                          *)

\* the files a scope directory may hold
ScopeFiles ==
    {Unparseable}
    \cup {Mapping(MkDict(o)) : o \in [name : {<<"reviewer">>, <<"planner">>},
                                      description : {<<"x">>}, prompt : {<<"x">>},
                                      intelligence : {<<"light">>, <<"hard">>,
                                                      <<"extreme">>}]}

\* mutant of Insert: an entry of the same name is kept next to the new one
InsertNoReplace(m, e) == m \cup {e}

\* insertion into the name-keyed collection: the entry replaces, whole, any
\* entry of the same name
Insert(m, e) == {x \in m : x.name /= e.name} \cup {e}

\* a file that parses and validates, i.e. one the resolver loads
Loads(file) ==
    LET r == verify_yaml_config(file) IN r.exc = "none" /\ r.ret

\* one file of scope o: merged if it loads, a per-file failure if not
LoadFile(file, o) ==
    IF Loads(file)
    THEN /\ merged' = Insert(merged, [name |-> file.tree["name"],
                                      config |-> file.tree, origin |-> o])
         /\ UNCHANGED failures
    ELSE /\ failures' = Append(failures, [scope |-> o, index |-> pos])
         /\ UNCHANGED merged

InitResolve ==
    /\ global_files \in SeqsUpTo(ScopeFiles, MaxScopeFiles)
    /\ project_files \in SeqsUpTo(ScopeFiles, MaxScopeFiles)
    /\ scope = "global"
    /\ pos = 1
    /\ merged = {}
    /\ failures = <<>>
    /\ yaml_files = <<>>
    /\ pc = "start"
    /\ idx = 1
    /\ all_valid = TRUE
    /\ outcomes = <<>>
    /\ summary = ""

LoadGlobal ==
    /\ scope = "global"
    /\ pos <= Len(global_files)
    /\ LoadFile(global_files[pos], "global")
    /\ pos' = pos + 1
    /\ UNCHANGED <<global_files, project_files, scope>>
    /\ UNCHANGED mainVars

\* the global directory is exhausted: on to the project directory
EnterProject ==
    /\ scope = "global"
    /\ pos > Len(global_files)
    /\ scope' = "project"
    /\ pos' = 1
    /\ UNCHANGED <<global_files, project_files, merged, failures>>
    /\ UNCHANGED mainVars

LoadProject ==
    /\ scope = "project"
    /\ pos <= Len(project_files)
    /\ LoadFile(project_files[pos], "project")
    /\ pos' = pos + 1
    /\ UNCHANGED <<global_files, project_files, scope>>
    /\ UNCHANGED mainVars

Finish ==
    /\ scope = "project"
    /\ pos > Len(project_files)
    /\ scope' = "done"
    /\ UNCHANGED <<global_files, project_files, pos, merged, failures>>
    /\ UNCHANGED mainVars

NextResolve == LoadGlobal \/ EnterProject \/ LoadProject \/ Finish

SpecResolve == InitResolve /\ [][NextResolve]_vars

-----------------------------------------------------------------------------
(* The schema rules as the specification words them, for the claims *)

\* a violation: kind, the section and entry it is about, the field, and for
\* an enumeration the offending value and the allowed set
Violation(k, sec, i, f, v, a) ==
    [kind |-> k, section |-> sec, index |-> i, field |-> f, value |-> v, allowed |-> a]

\* empty or whitespace only, over the string values of the model
IsBlank(v) == v \in {"", " "}

RequiredViolation(d, f, blank) ==
    IF ~Has(d, f) THEN <<Violation("MissingField", "top", 0, f, "", {})>>
    ELSE IF d[f] \in blank THEN <<Violation("EmptyField", "top", 0, f, d[f], {})>>
    ELSE <<>>

EnumViolation(d, key, allowed) ==
    IF Has(d, key) /\ d[key] \notin allowed
    THEN <<Violation("InvalidEnum", "top", 0, key, d[key], allowed)>>
    ELSE <<>>

ToolViolations(tool, i) ==
    (IF ~Has(tool, "name")
     THEN <<Violation("MissingField", "tools", i, "name", "", {})>> ELSE <<>>)
    \o (IF Has(tool, "permission") /\ tool["permission"] \notin {"allow", "deny", "restricted"}
        THEN <<Violation("InvalidEnum", "tools", i, "permission", tool["permission"],
                         {"allow", "deny", "restricted"})>>
        ELSE <<>>)

ParamViolations(param, i) ==
    (IF ~Has(param, "name")
     THEN <<Violation("MissingField", "parameters", i, "name", "", {})>> ELSE <<>>)
    \o (IF ~Has(param, "description")
        THEN <<Violation("MissingField", "parameters", i, "description", "", {})>>
        ELSE <<>>)

RECURSIVE AllToolViolations(_, _)
AllToolViolations(tools, i) ==
    IF i > Len(tools) THEN <<>>
    ELSE ToolViolations(tools[i], i) \o AllToolViolations(tools, i + 1)

RECURSIVE AllParamViolations(_, _)
AllParamViolations(params, i) ==
    IF i > Len(params) THEN <<>>
    ELSE ParamViolations(params[i], i) \o AllParamViolations(params, i + 1)

\* every rule the document d breaks, in rule order; blank is the set of
\* required-field values that count as empty
BrokenRules(d, blank) ==
    RequiredViolation(d, "name", blank)
    \o RequiredViolation(d, "description", blank)
    \o RequiredViolation(d, "prompt", blank)
    \o EnumViolation(d, "mode_override", {"plan", "build", "review"})
    \o EnumViolation(d, "intelligence", {"light", "medium", "hard"})
    \o (IF Has(d, "tools") THEN AllToolViolations(d["tools"], 1) ELSE <<>>)
    \o (IF Has(d, "parameters")
        THEN AllParamViolations(d["parameters"], 1) ELSE <<>>)

\* the printed violation l reports the violation v.  The script has one
\* message for an absent and for an empty required field, prints no entry
\* index and no allowed set for a tool permission: none of that is held
\* against it here.
Reports(l, v) ==
    /\ l.err
    /\ CASE v.section = "top" /\ v.kind \in {"MissingField", "EmptyField"} ->
              l.msg = "Missing required field" /\ l.subject = v.field
         [] v.section = "top" /\ v.kind = "InvalidEnum" ->
              /\ l.msg = "Invalid" /\ l.subject = v.field
              /\ l.value = v.value /\ l.allowed = v.allowed
         [] v.section = "tools" /\ v.kind = "MissingField" ->
              l.msg = "Tool missing 'name' field"
         [] v.section = "tools" /\ v.kind = "InvalidEnum" ->
              l.msg = "Invalid permission for" /\ l.value = v.value
         [] v.section = "parameters" ->
              l.msg = "Parameter missing field" /\ l.subject = v.field

\* the printed violations are exactly the violations vs, in order
ReportsAll(out, vs) ==
    LET e == Errors(out) IN
    /\ Len(e) = Len(vs)
    /\ \A j \in 1..Len(vs) : Reports(e[j], vs[j])

\* the files verified so far that loaded as a mapping
Verified == {i \in 1..Len(outcomes) : yaml_files[i].kind = "mapping"}

Doc(i) == yaml_files[i].tree

\* the document of the scenario: its only tool entry has no name and
\* permission "maybe"
ScenarioDoc(d) ==
    /\ Has(d, "tools") /\ d["tools"] = <<[permission |-> "maybe"]>>
    /\ BrokenRules(d, {""}) = ToolViolations(d["tools"][1], 1)

-----------------------------------------------------------------------------
(* C1 *)

-----------------------------------------------------------------------------
(* C2 *)

\* the required fields that come before f in the order they are checked
Before(f) ==
    LET at == CHOOSE j \in 1..Len(required) : required[j] = f
    IN {required[j] : j \in 1..(at - 1)}

MissingLine(out, f) ==
    \E j \in 1..Len(out) : out[j].err /\ out[j].msg = "Missing required field"
                                      /\ out[j].subject = f

-----------------------------------------------------------------------------
(* C3 *)

\* the rules of C3: required fields present and non-empty, enumerations in
\* their sets, every tool with a name and a known permission, every
\* parameter with name and description
RulesHold(d) ==
    /\ \A f \in {"name", "description", "prompt"} : Has(d, f) /\ d[f] /= ""
    /\ Has(d, "mode_override") => d["mode_override"] \in {"plan", "build", "review"}
    /\ Has(d, "intelligence") => d["intelligence"] \in {"light", "medium", "hard"}
    /\ Has(d, "tools") => \A j \in 1..Len(d["tools"]) :
           /\ Has(d["tools"][j], "name")
           /\ Has(d["tools"][j], "permission") =>
                  d["tools"][j]["permission"] \in {"allow", "deny", "restricted"}
    /\ Has(d, "parameters") => \A j \in 1..Len(d["parameters"]) :
           Has(d["parameters"][j], "name") /\ Has(d["parameters"][j], "description")

\* C3: a file is accepted (verify_yaml_config returns True) if and only if it
\* loads as a mapping that satisfies every rule; a rejected document reports
\* a violation and an accepted one reports none.
C3_AcceptedIffAllRulesHold ==
    \A i \in 1..Len(outcomes) :
        LET accepted == outcomes[i].exc = "none" /\ outcomes[i].ret IN
        /\ accepted <=> (yaml_files[i].kind = "mapping" /\ RulesHold(Doc(i)))
        /\ accepted => Errors(outcomes[i].out) = <<>>

\* a document whose only fault is a parameter without description was rejected
C3_Witness ==
    \E i \in Verified :
        /\ ~outcomes[i].ret
        /\ Has(Doc(i), "parameters") /\ Doc(i)["parameters"] = <<[name |-> "path"]>>
        /\ RulesHold([k \in DOMAIN Doc(i) \ {"parameters"} |-> Doc(i)[k]])

-----------------------------------------------------------------------------
(* C4 *)

InvalidLine(out, key, value, allowed) ==
    \E j \in 1..Len(out) : /\ out[j].err /\ out[j].msg = "Invalid"
                           /\ out[j].subject = key /\ out[j].value = value
                           /\ out[j].allowed = allowed

BadEnum(d, key, allowed) == Has(d, key) /\ d[key] \notin allowed

-----------------------------------------------------------------------------
(* C5 *)

\* C5: no file aborts the scan.  When the program has ended every discovered
\* file has been verified, and no verification ended in an exception.
C5_ScanNeverAborts ==
    pc \in {"done", "crashed"} =>
        /\ Len(outcomes) = Len(yaml_files)
        /\ \A i \in 1..Len(outcomes) : outcomes[i].exc = "none"

-----------------------------------------------------------------------------
(* C7 *)

\* required fields present and non-empty, no other key but tools and
\* parameters, and these empty
MinimalDoc(d) ==
    /\ \A f \in {"name", "description", "prompt"} : Has(d, f) /\ d[f] /= ""
    /\ DOMAIN d \subseteq {"name", "description", "prompt", "tools", "parameters"}
    /\ Has(d, "tools") => d["tools"] = <<>>
    /\ Has(d, "parameters") => d["parameters"] = <<>>

\* C7: every minimal valid document validates successfully.
C7_MinimalDocumentValid ==
    \A i \in Verified :
        MinimalDoc(Doc(i)) => outcomes[i].ret /\ Errors(outcomes[i].out) = <<>>

\* a minimal document with empty tools and parameters sequences was verified
C7_Witness ==
    \E i \in Verified : /\ MinimalDoc(Doc(i))
                         /\ Has(Doc(i), "tools") /\ Has(Doc(i), "parameters")
                         /\ outcomes[i].ret

-----------------------------------------------------------------------------
(* C8 *)

\* the tool entry with its restrictions key removed if present, added if not
ToggleRestrictions(tool) ==
    IF Has(tool, "restrictions")
    THEN [k \in DOMAIN tool \ {"restrictions"} |-> tool[k]]
    ELSE [k \in DOMAIN tool \cup {"restrictions"} |->
              IF k = "restrictions" THEN <<"*.rs">> ELSE tool[k]]

ToggleAt(d, j) ==
    [d EXCEPT !["tools"] = [@ EXCEPT ![j] = ToggleRestrictions(@)]]

\* C8: adding or removing the restrictions of any tool entry leaves the
\* result and the violations unchanged; in particular a restricted tool
\* without restrictions, and an allowed tool with restrictions, are valid.
C8_RestrictionsNeverMatter ==
    \A i \in Verified :
        Has(Doc(i), "tools") =>
            \A j \in 1..Len(Doc(i)["tools"]) :
                LET tool == Doc(i)["tools"][j]
                    v == VerifyMapping(ToggleAt(Doc(i), j))
                IN /\ v.ret = outcomes[i].ret
                   /\ Errors(v.out) = Errors(outcomes[i].out)
                   /\ ( /\ Len(Doc(i)["tools"]) = 1
                        /\ RulesHold([k \in DOMAIN Doc(i) \ {"tools"} |-> Doc(i)[k]])
                        /\ Has(tool, "name") /\ Has(tool, "permission")
                        /\ \/ tool["permission"] = "restricted" /\ ~Has(tool, "restrictions")
                           \/ tool["permission"] = "allow" /\ Has(tool, "restrictions") )
                      => outcomes[i].ret

\* a restricted tool without restrictions was verified and accepted
C8_Witness ==
    \E i \in Verified :
        /\ Has(Doc(i), "tools") /\ Len(Doc(i)["tools"]) >= 1
        /\ Has(Doc(i)["tools"][1], "permission")
        /\ Doc(i)["tools"][1]["permission"] = "restricted"
        /\ ~Has(Doc(i)["tools"][1], "restrictions")
        /\ outcomes[i].ret

-----------------------------------------------------------------------------
(* C9 *)

\* keys outside the schema, and values for them
UnknownKeys == {"color", "version"}

UnknownValues == {"blue", ""}

With(d, k, v) == [x \in DOMAIN d \cup {k} |-> IF x = k THEN v ELSE d[x]]

Without(d, k) == [x \in DOMAIN d \ {k} |-> d[x]]

\* C9: validating a document with an unrecognized top-level key added, with
\* any value, or removed, gives the same outcome as validating the document.
C9_UnknownKeysIgnored ==
    \A i \in Verified : \A k \in UnknownKeys \ KnownKeys :
        /\ \A v \in UnknownValues : VerifyMapping(With(Doc(i), k, v)) = outcomes[i]
        /\ VerifyMapping(Without(Doc(i), k)) = outcomes[i]

\* a document with an unrecognized key was verified and accepted
C9_Witness ==
    \E i \in Verified : Has(Doc(i), "color") /\ outcomes[i].ret

-----------------------------------------------------------------------------
(* C10 *)

AllReturnedTrue(n) == \A i \in 1..n : outcomes[i].exc = "none" /\ outcomes[i].ret

\* C10: all_valid is true when the loop starts, only ever changes from true to
\* false, in the loop it tells whether every call so far returned True, and
\* the summary says "All YAML configurations are valid!" exactly when every
\* discovered file was accepted.
C10_AllValidFlag ==
    /\ [](pc = "loop" => (all_valid <=> AllReturnedTrue(Len(outcomes))))
    /\ []((pc = "done" /\ yaml_files /= <<>>) =>
            /\ Len(outcomes) = Len(yaml_files)
            /\ all_valid <=> AllReturnedTrue(Len(yaml_files))
            /\ (summary = "All YAML configurations are valid!") <=> all_valid
            /\ (summary = "Some configurations have errors") <=> ~all_valid)
    /\ [][all_valid' => all_valid]_vars

\* three files were scanned, only the middle one rejected, and the summary
\* reports errors
C10_Witness ==
    /\ pc = "done" /\ Len(outcomes) = 3
    /\ outcomes[1].ret /\ ~outcomes[2].ret /\ outcomes[3].ret
    /\ summary = "Some configurations have errors"

-----------------------------------------------------------------------------
(* C6 *)

\* the agent names of the valid files in a scope's file list
ValidNames(files) ==
    {files[i].tree["name"] : i \in {j \in 1..Len(files) :
        files[j].kind = "mapping" /\ RulesHold(files[j].tree)}}

\* the documents of the valid files named n in a scope's file list
ValidDocs(files, n) ==
    {files[i].tree : i \in {j \in 1..Len(files) :
        /\ files[j].kind = "mapping" /\ RulesHold(files[j].tree)
        /\ files[j].tree["name"] = n}}

\* C6: once both directories are resolved, a name shared by a valid global
\* file and a valid project file has exactly one entry, holding exactly a
\* project file's fields, with origin project; a global name no valid project
\* file uses keeps one entry, a global file's, with origin global.
C6_ProjectOverridesGlobal ==
    scope = "done" =>
        \A n \in ValidNames(global_files) :
            LET es == {e \in merged : e.name = n} IN
            /\ Cardinality(es) = 1
            /\ \A e \in es :
                   IF n \in ValidNames(project_files)
                   THEN e.origin = "project" /\ e.config \in ValidDocs(project_files, n)
                   ELSE e.origin = "global" /\ e.config \in ValidDocs(global_files, n)

\* resolved: a global reviewer with intelligence hard, overridden by a
\* project reviewer with intelligence light, and a global planner kept
C6_Witness ==
    /\ scope = "done"
    /\ \E e \in merged : /\ e.name = "reviewer" /\ e.origin = "project"
                         /\ e.config["intelligence"] = "light"
    /\ \E i \in 1..Len(global_files) :
           /\ Loads(global_files[i]) /\ global_files[i].tree["name"] = "reviewer"
           /\ global_files[i].tree["intelligence"] = "hard"
    /\ \E e \in merged : e.name = "planner" /\ e.origin = "global"

====
